---- MODULE Spec2Model ----
(***************************************************************************)
(* Patent Claims Processor (src/app.py).                                   *)
(*                                                                         *)
(* A Python str is modelled as the sequence of its code points, so that    *)
(* ord(x) < 128, str.lower, str.strip, str.split, str.join, the regular    *)
(* expression and the lexicographic sort are computed as the code computes *)
(* them.  Every literal below carries the text it stands for.              *)
(***************************************************************************)
EXTENDS Integers, Sequences, FiniteSets, TLC

VARIABLES
    claim,                \* clean_claim_text: the argument
    result,               \* clean_claim_text: the returned (text, comments)
    headers,              \* process_details_sheet: ws[1]
    in_rows,              \* process_details_sheet: rows read by ws.iter_rows so far
    updated_rows,         \* process_details_sheet: the "Updated Details" rows
    rejected_rows,        \* process_details_sheet: the "Commented Claims" rows
    cleaned_log,          \* process_details_sheet: cleaned_claims of each row read
    rerun_rejected,       \* rejected_rows of a run over the "Updated Details" sheet
    pc,                   \* position of the run
    df_meta,              \* process_info_sheet: the metadata table
    df_family_published,  \* process_info_sheet: the family-published table
    null_as_text,         \* whether Series.astype(str) renders a null as "nan"
    df_info,              \* process_info_sheet: the info table
    seed_count,           \* process_info_sheet: len(df_seed)
    details_file,         \* UI: the uploaded details sheet (or None)
    metadata_file,        \* UI: the uploaded metadata sheet (or None)
    shown                 \* UI: what the last script run rendered

vars == <<claim, result, headers, in_rows, updated_rows, rejected_rows,
          cleaned_log, rerun_rejected, pc, df_meta, df_family_published,
          null_as_text, df_info, seed_count, details_file, metadata_file, shown>>

classifyVars == <<claim, result>>
detailsVars == <<headers, in_rows, updated_rows, rejected_rows, cleaned_log,
                 rerun_rejected>>
infoVars == <<df_meta, df_family_published, null_as_text, df_info, seed_count>>
uiVars == <<details_file, metadata_file, shown>>

-----------------------------------------------------------------------------
(* Python values                                                           *)

None == [t |-> "none"]
StrVal(s) == [t |-> "str", s |-> s]
IntVal(n) == [t |-> "int", n |-> n]

\* bool(v) for the values a cell can hold
Truthy(v) ==
    CASE v.t = "none" -> FALSE
      [] v.t = "str" -> v.s # <<>>
      [] v.t = "int" -> v.n # 0

\* decimal digits of a natural number
RECURSIVE Digits(_)
Digits(n) == IF n < 10 THEN <<48 + n>> ELSE Digits(n \div 10) \o <<48 + (n % 10)>>

\* str(v)
PyStr(v) ==
    CASE v.t = "str" -> v.s
      [] v.t = "int" -> Digits(v.n)
      [] v.t = "none" -> <<78, 111, 110, 101>>                \* "None"

-----------------------------------------------------------------------------
(* str operations                                                          *)

\* str.isspace for one character (the characters str.strip removes, and the
\* characters \s matches)
WhiteSpace == {9, 10, 11, 12, 13, 28, 29, 30, 31, 32, 133, 160, 5760,
               8232, 8233, 8239, 8287, 12288} \cup (8192 .. 8202)

\* str.strip()
strip(s) ==
    LET keep == {i \in 1 .. Len(s) : s[i] \notin WhiteSpace}
    IN  IF keep = {} THEN <<>>
        ELSE LET lo == CHOOSE i \in keep : \A j \in keep : i <= j
                 hi == CHOOSE i \in keep : \A j \in keep : j <= i
             IN  SubSeq(s, lo, hi)

\* str.lower() for one character of an ASCII text
lowerChar(c) == IF c >= 65 /\ c <= 90 THEN c + 32 ELSE c

\* str.lower(), applied by the code to ASCII text only
lower(s) == [i \in 1 .. Len(s) |-> lowerChar(s[i])]

\* sub in s
Contains(s, sub) ==
    \E i \in 1 .. (Len(s) - Len(sub) + 1) : \A k \in 1 .. Len(sub) : s[i + k - 1] = sub[k]

\* s.split(sep) for a one-character separator
RECURSIVE split(_, _)
split(s, sep) ==
    LET at == {i \in 1 .. Len(s) : s[i] = sep}
    IN  IF at = {} THEN <<s>>
        ELSE LET i == CHOOSE k \in at : \A j \in at : k <= j
             IN  <<SubSeq(s, 1, i - 1)>> \o split(SubSeq(s, i + 1, Len(s)), sep)

\* sep.join(parts)
RECURSIVE join(_, _)
join(parts, sep) ==
    IF parts = <<>> THEN <<>>
    ELSE IF Len(parts) = 1 THEN parts[1]
    ELSE parts[1] \o sep \o join(Tail(parts), sep)

\* the concatenation of a list of lists
RECURSIVE Flatten(_)
Flatten(qs) == IF qs = <<>> THEN <<>> ELSE Head(qs) \o Flatten(Tail(qs))

-----------------------------------------------------------------------------
(* clean_claim_text                                                        *)

remove_non_ascii(s) == SelectSeq(s, LAMBDA x : x < 128)

KwCanceled == <<40, 99, 97, 110, 99, 101, 108, 101, 100, 41>>       \* "(canceled)"
KwCRM ==
    { <<110, 111, 110, 45, 116, 114, 97, 110, 115, 105, 116, 111, 114, 121, 32,
        99, 111, 109, 112, 117, 116, 101, 114, 45, 114, 101, 97, 100, 97, 98,
        108, 101, 32, 109, 101, 100, 105, 117, 109>>,   \* "non-transitory computer-readable medium"
      <<99, 111, 109, 112, 117, 116, 101, 114, 45, 114, 101, 97, 100, 97, 98,
        108, 101, 32, 109, 101, 100, 105, 117, 109>>,   \* "computer-readable medium"
      <<99, 111, 109, 112, 117, 116, 101, 114, 32, 112, 114, 111, 103, 114, 97,
        109>>,                                          \* "computer program"
      <<99, 111, 109, 112, 117, 116, 101, 114>> }       \* "computer"
KwDelete == <<100, 101, 108, 101, 116, 101>>                        \* "delete"
KwParagraph == <<112, 97, 114, 97, 103, 114, 97, 112, 104>>         \* "paragraph"
KwArticle == <<97, 114, 116, 105, 99, 108, 101>>                    \* "article"
KwClause == <<99, 108, 97, 117, 115, 101>>                          \* "clause"

TagCancel == <<99, 97, 110, 99, 101, 108>>                          \* "cancel"
TagCRM == <<67, 82, 77>>                                            \* "CRM"
TagDelete == KwDelete                                               \* "delete"
TagParagraph == KwParagraph                                         \* "paragraph"
TagArticle == KwArticle                                             \* "article"
TagClause == KwClause                                               \* "clause"
TagProbableDependent ==                                     \* "probable dependent"
    <<112, 114, 111, 98, 97, 98, 108, 101, 32, 100, 101, 112, 101, 110, 100,
      101, 110, 116>>

\* \w, \d and \b of the re module on an ASCII text
IsWordChar(c) ==
    \/ c >= 48 /\ c <= 57
    \/ c >= 65 /\ c <= 90
    \/ c >= 97 /\ c <= 122
    \/ c = 95
IsDigit(c) == c >= 48 /\ c <= 57
WordAt(s, i) == i >= 1 /\ i <= Len(s) /\ IsWordChar(s[i])
\* \b between s[p - 1] and s[p]
Boundary(s, p) == WordAt(s, p - 1) # WordAt(s, p)

ReClaim == <<99, 108, 97, 105, 109>>                                \* "claim"

\* the search with the pattern r'\bclaims?\s*\d+': no \b after the word
SearchClaimsDigits_NoBoundary(s) ==
    \E i \in 1 .. Len(s) :
        /\ Boundary(s, i)
        /\ i + 4 <= Len(s)
        /\ \A k \in 1 .. 5 : lowerChar(s[i + k - 1]) = ReClaim[k]
        /\ \E e \in {i + 5, i + 6} :
              /\ e = i + 6 => (i + 5 <= Len(s) /\ lowerChar(s[i + 5]) = 115)
              /\ \E d \in e .. Len(s) :
                    /\ \A k \in e .. (d - 1) : s[k] \in WhiteSpace
                    /\ IsDigit(s[d])

\* re.search(r'\bclaims?\b\s*\d+', s, re.IGNORECASE) finds a match
SearchClaimsDigits(s) ==
    \E i \in 1 .. Len(s) :
        /\ Boundary(s, i)
        /\ i + 4 <= Len(s)
        /\ \A k \in 1 .. 5 : lowerChar(s[i + k - 1]) = ReClaim[k]
        /\ \E e \in {i + 5, i + 6} :            \* first position after claims?
              /\ e = i + 6 => (i + 5 <= Len(s) /\ lowerChar(s[i + 5]) = 115)
              /\ Boundary(s, e)
              /\ \E d \in e .. Len(s) :         \* \s* up to d, \d+ from d
                    /\ \A k \in e .. (d - 1) : s[k] \in WhiteSpace
                    /\ IsDigit(s[d])

LenLimit == 200

\* comments.append(tag) if cond
AppendIf(comments, cond, tag) == IF cond THEN Append(comments, tag) ELSE comments

InComments(comments, tag) == \E i \in 1 .. Len(comments) : comments[i] = tag

\* clean_claim_text with remove_non_ascii applied after the tests instead of before
clean_claim_text_TagsBeforeAscii(c) ==
    IF c = <<>> THEN [text |-> <<>>, comments |-> <<>>]
    ELSE
      LET text == strip(c)
          low == lower(text)
          c1 == AppendIf(<<>>, Contains(low, KwCanceled), TagCancel)
          c2 == AppendIf(c1, \E x \in KwCRM : Contains(low, x), TagCRM)
          c3 == AppendIf(c2, Contains(low, KwDelete), TagDelete)
          c4 == AppendIf(c3, Contains(low, KwParagraph), TagParagraph)
          c5 == AppendIf(c4, Contains(low, KwArticle), TagArticle)
          c6 == AppendIf(c5, Contains(low, KwClause), TagClause)
          c7 == AppendIf(c6, SearchClaimsDigits(text), TagProbableDependent)
          c8 == AppendIf(c7, ~InComments(c7, TagProbableDependent)
                               /\ Len(text) < LenLimit, TagProbableDependent)
      IN  [text |-> remove_non_ascii(text), comments |-> c8]

clean_claim_text(c) ==
    IF c = <<>> THEN [text |-> <<>>, comments |-> <<>>]
    ELSE
      LET text == remove_non_ascii(strip(c))
          low == lower(text)
          c1 == AppendIf(<<>>, Contains(low, KwCanceled), TagCancel)
          c2 == AppendIf(c1, \E x \in KwCRM : Contains(low, x), TagCRM)
          c3 == AppendIf(c2, Contains(low, KwDelete), TagDelete)
          c4 == AppendIf(c3, Contains(low, KwParagraph), TagParagraph)
          c5 == AppendIf(c4, Contains(low, KwArticle), TagArticle)
          c6 == AppendIf(c5, Contains(low, KwClause), TagClause)
          c7 == AppendIf(c6, SearchClaimsDigits(text), TagProbableDependent)
          c8 == AppendIf(c7, ~InComments(c7, TagProbableDependent)
                               /\ Len(text) < LenLimit, TagProbableDependent)
      IN  [text |-> text, comments |-> c8]

-----------------------------------------------------------------------------
(* Inputs of the classifier                                                *)

\* n - 1 letters "x" and a space
Pad(n) == [i \in 1 .. n |-> IF i < n THEN 120 ELSE 32]

ClaimCores ==
    { <<>>,
      <<40, 99, 97, 110, 99, 101, 108, 101, 100, 41>>,              \* "(canceled)"
      <<40, 67, 97, 110, 99, 101, 108, 101, 100, 41>>,              \* "(Canceled)"
      <<40, 99, 97, 110, 99, 233, 101, 108, 101, 100, 41>>,         \* "(canc<e9>eled)"
      <<99, 111, 109, 112, 117, 116, 101, 114, 32, 112, 114, 111, 103, 114, 97,
        109>>,                                                      \* "computer program"
      <<99, 111, 109, 112, 233, 117, 116, 101, 114>>,               \* "comp<e9>uter"
      <<100, 101, 108, 101, 116, 101, 32, 99, 108, 97, 117, 115, 101>>, \* "delete clause"
      <<97, 32, 112, 97, 114, 97, 103, 114, 97, 112, 104>>,         \* "a paragraph"
      <<97, 110, 32, 65, 114, 116, 105, 99, 108, 101>>,             \* "an Article"
      <<99, 108, 97, 105, 109, 32, 49>>,                            \* "claim 1"
      <<99, 108, 97, 105, 109, 115, 32, 49, 50>>,                   \* "claims 12"
      <<67, 76, 65, 73, 77, 83, 32, 32, 55>>,                       \* "CLAIMS  7"
      <<67, 108, 97, 105, 109, 9, 51>>,                             \* "Claim<TAB>3"
      <<99, 108, 97, 105, 109, 49>>,                                \* "claim1"
      <<99, 108, 97, 105, 109, 115, 49>>,                           \* "claims1"
      <<99, 108, 97, 105, 109, 233, 49>>,                           \* "claim<e9>1"
      <<99, 108, 97, 105, 109, 95, 32, 49>>,                        \* "claim_ 1"
      <<99, 108, 97, 105, 109, 32, 120>>,                           \* "claim x"
      <<99, 108, 97, 105, 109>>,                                    \* "claim"
      <<99, 108, 97, 105, 109, 46, 32, 49>>,                        \* "claim. 1"
      <<111, 107>> }                                                \* "ok"

ClaimPrefixes ==
    { <<>>, <<32>>, <<233>>, <<112, 114, 111>>,                     \* "", " ", "<e9>", "pro"
      Pad(LenLimit - 3), Pad(LenLimit - 2), Pad(LenLimit) }

ClaimSuffixes == { <<>>, <<32, 10>>, <<120>> }                      \* "", " \n", "x"

ClaimPool == { p \o c \o x : p \in ClaimPrefixes, c \in ClaimCores, x \in ClaimSuffixes }

-----------------------------------------------------------------------------
(* process_details_sheet                                                   *)

ClaimColumn == "Independent Claims"

\* headers.index(name)
Index(hdr, name) ==
    CHOOSE i \in 1 .. Len(hdr) : hdr[i] = name /\ \A j \in 1 .. (i - 1) : hdr[j] # name

RejectTags == {TagCancel, TagCRM, TagDelete, TagParagraph, TagArticle, TagClause}

\* the test with "article" missing from the list
IsRejected_NoArticle(comments) ==
    \E c \in RejectTags \ {TagArticle} : InComments(comments, c)

\* any(c in comments for c in ["cancel", "CRM", "delete", "paragraph", "article", "clause"])
IsRejected(comments) == \E c \in RejectTags : InComments(comments, c)

Sep == <<32, 124, 32>>                                              \* " | "
CommentSep == <<44, 32>>                                            \* ", "
Pipe == 124

\* the loop with an  if cleaned_text:  in front of cleaned_claims.append
RECURSIVE PartsLoop_DropEmpty(_, _, _, _)
PartsLoop_DropEmpty(parts, key, cleaned_claims, rejected) ==
    IF parts = <<>> THEN [cleaned_claims |-> cleaned_claims, rejected |-> rejected]
    ELSE LET r == clean_claim_text(Head(parts))
         IN  IF IsRejected(r.comments)
             THEN PartsLoop_DropEmpty(Tail(parts), key, cleaned_claims,
                            Append(rejected,
                                   <<key, StrVal(r.text),
                                     StrVal(join(r.comments, CommentSep))>>))
             ELSE PartsLoop_DropEmpty(Tail(parts), key,
                            IF r.text = <<>> THEN cleaned_claims
                            ELSE Append(cleaned_claims, r.text), rejected)

\* the loop with  part  in place of  cleaned_text  in the rejected row
RECURSIVE PartsLoop_RawText(_, _, _, _)
PartsLoop_RawText(parts, key, cleaned_claims, rejected) ==
    IF parts = <<>> THEN [cleaned_claims |-> cleaned_claims, rejected |-> rejected]
    ELSE LET r == clean_claim_text(Head(parts))
         IN  IF IsRejected(r.comments)
             THEN PartsLoop_RawText(Tail(parts), key, cleaned_claims,
                            Append(rejected,
                                   <<key, StrVal(Head(parts)),
                                     StrVal(join(r.comments, CommentSep))>>))
             ELSE PartsLoop_RawText(Tail(parts), key, Append(cleaned_claims, r.text),
                                    rejected)

\* the loop over the parts of one claim cell
RECURSIVE PartsLoop(_, _, _, _)
PartsLoop(parts, key, cleaned_claims, rejected) ==
    IF parts = <<>> THEN [cleaned_claims |-> cleaned_claims, rejected |-> rejected]
    ELSE LET r == clean_claim_text(Head(parts))
         IN  IF IsRejected(r.comments)
             THEN PartsLoop(Tail(parts), key, cleaned_claims,
                            Append(rejected,
                                   <<key, StrVal(r.text),
                                     StrVal(join(r.comments, CommentSep))>>))
             ELSE PartsLoop(Tail(parts), key, Append(cleaned_claims, r.text), rejected)

\* the loop body with the assignment to row_list inside  if claim_cell:
ProcessRow_KeepEmptyCell(row, claim_col_idx) ==
    LET key == row[1]
        claim_cell == row[claim_col_idx]
        parts == IF Truthy(claim_cell) THEN split(PyStr(claim_cell), Pipe) ELSE <<>>
        done == PartsLoop(parts, key, <<>>, <<>>)
    IN  [row_list |-> IF Truthy(claim_cell)
                      THEN [row EXCEPT ![claim_col_idx] =
                                           StrVal(join(done.cleaned_claims, Sep))]
                      ELSE row,
         cleaned_claims |-> done.cleaned_claims,
         rejected |-> done.rejected]

\* the body of the loop over ws.iter_rows(min_row=2)
ProcessRow(row, claim_col_idx) ==
    LET key == row[1]
        claim_cell == row[claim_col_idx]
        parts == IF Truthy(claim_cell) THEN split(PyStr(claim_cell), Pipe) ELSE <<>>
        done == PartsLoop(parts, key, <<>>, <<>>)
    IN  [row_list |-> [row EXCEPT ![claim_col_idx] = StrVal(join(done.cleaned_claims, Sep))],
         cleaned_claims |-> done.cleaned_claims,
         rejected |-> done.rejected]

RejectedHeader == <<"Key", "Claim", "Comments">>

\* the whole function on a sheet already in memory
RECURSIVE RowsLoop(_, _, _, _)
RowsLoop(rows, claim_col_idx, updated, rejected) ==
    IF rows = <<>> THEN [updated_rows |-> updated, rejected_rows |-> rejected]
    ELSE LET r == ProcessRow(Head(rows), claim_col_idx)
         IN  RowsLoop(Tail(rows), claim_col_idx, Append(updated, r.row_list),
                      rejected \o r.rejected)

process_details_sheet(sheet) ==
    RowsLoop(Tail(sheet), Index(Head(sheet), ClaimColumn), <<Head(sheet)>>,
             <<RejectedHeader>>)

-----------------------------------------------------------------------------
(* process_info_sheet                                                      *)

\* a date cell that pd.to_datetime parses; d counts days
DateVal(d) == [t |-> "date", d |-> d]

TextNan == <<110, 97, 110>>                                         \* "nan"

\* one cell of Series.astype(str): a null becomes the text "nan" or stays null,
\* as the installed pandas has it
astype_str(v, nullAsText) ==
    IF v = None THEN (IF nullAsText THEN StrVal(TextNan) ELSE None)
    ELSE StrVal(PyStr(v))

\* one cell of Series.fillna(fill)
fillna(v, fill) == IF v = None THEN fill ELSE v

\* one cell of .str.extract(r'(\d+)', expand=False).astype('Int64')
RECURSIVE DigitsValue(_, _)
DigitsValue(s, acc) ==
    IF s = <<>> \/ ~IsDigit(Head(s)) THEN acc
    ELSE DigitsValue(Tail(s), 10 * acc + (Head(s) - 48))

extract_int(v) ==
    IF v = None THEN None
    ELSE LET at == {i \in 1 .. Len(v.s) : IsDigit(v.s[i])}
         IN  IF at = {} THEN None
             ELSE LET i == CHOOSE k \in at : \A j \in at : k <= j
                  IN  IntVal(DigitsValue(SubSeq(v.s, i, Len(v.s)), 0))

\* a < b for two str
StrLess(a, b) ==
    \E i \in 1 .. (Len(b)) :
        /\ \A k \in 1 .. (i - 1) : k <= Len(a) /\ a[k] = b[k]
        /\ i > Len(a) \/ a[i] < b[i]

\* sorted(set_of_str)
RECURSIVE sorted(_)
sorted(S) ==
    IF S = {} THEN <<>>
    ELSE LET m == CHOOSE x \in S : \A y \in S \ {x} : StrLess(x, y)
         IN  <<m>> \o sorted(S \ {m})

\* df_seed = df_meta[df_meta['Seed?'] == True]
SeedRows(meta) == SelectSeq(meta, LAMBDA r : r["Seed?"] = TRUE)

\* the base info sheet and its 'Claim Number' column
BaseInfo(seed, nullAsText) ==
    [i \in 1 .. Len(seed) |->
        ("Publication Number" :> seed[i]["Seed patent"])
        @@ ("Application Number" :> seed[i]["Formatted Application Number"])
        @@ ("INPADOC Family Members" :>
                fillna(astype_str(seed[i]["extended family members"], nullAsText),
                       StrVal(<<>>)))
        @@ ("Claim Number" :>
                extract_int(astype_str(seed[i]["Claim number"], nullAsText)))]

\* df_info.merge(df_family_lookup, on='Publication Number', how='left') and the
\* renaming of 'Simple Family Id'
merge_left(info, family) ==
    Flatten([i \in 1 .. Len(info) |->
        LET hits == SelectSeq(family,
                        LAMBDA f : f["Publication Number"] = info[i]["Publication Number"])
        IN  IF hits = <<>> THEN << info[i] @@ ("INPADOC Family ID" :> None) >>
            ELSE [h \in 1 .. Len(hits) |->
                     info[i] @@ ("INPADOC Family ID" :> hits[h]["Simple Family Id"])]])

\* pd.to_datetime(cell, errors='coerce'): None stands for NaT
to_datetime(v) == IF v.t = "date" THEN v ELSE None

\* the order with na_position='first'
RowLess_NaTFirst(a, b) ==
    \/ StrLess(a["Application Number"].s, b["Application Number"].s)
    \/ /\ a["Application Number"] = b["Application Number"]
       /\ b["Publication Date"] # None
       /\ a["Publication Date"] = None \/ a["Publication Date"].d < b["Publication Date"].d

\* the order of sort_values(['Application Number', 'Publication Date']): ascending,
\* NaT last
RowLess(a, b) ==
    \/ StrLess(a["Application Number"].s, b["Application Number"].s)
    \/ /\ a["Application Number"] = b["Application Number"]
       /\ a["Publication Date"] # None
       /\ b["Publication Date"] = None \/ a["Publication Date"].d < b["Publication Date"].d

\* the stable sort of sort_values
RECURSIVE sort_values(_)
sort_values(rows) ==
    IF rows = <<>> THEN <<>>
    ELSE LET n == Len(rows)
             x == rows[n]
             done == sort_values(SubSeq(rows, 1, n - 1))
             k == Cardinality({i \in 1 .. (n - 1) : ~RowLess(x, done[i])})
         IN  SubSeq(done, 1, k) \o <<x>> \o SubSeq(done, k + 1, n - 1)

\* drop_duplicates(subset='Application Number', keep='first')
drop_duplicates(rows) ==
    LET keep == SelectSeq([i \in 1 .. Len(rows) |-> i],
                    LAMBDA i : \A j \in 1 .. (i - 1) :
                        rows[j]["Application Number"] # rows[i]["Application Number"])
    IN  [n \in 1 .. Len(keep) |-> rows[keep[n]]]

\* earliest_pub_map = dict(zip(Application Number, Publication Number))
EarliestPubMap(family) ==
    LET dated == [i \in 1 .. Len(family) |->
                     [family[i] EXCEPT !["Publication Date"] = to_datetime(@)]]
        first == drop_duplicates(sort_values(dated))
        apps == {first[i]["Application Number"] : i \in 1 .. Len(first)}
    IN  [a \in apps |->
            LET last == CHOOSE i \in 1 .. Len(first) :
                            /\ first[i]["Application Number"] = a
                            /\ \A j \in (i + 1) .. Len(first) :
                                  first[j]["Application Number"] # a
            IN  first[last]["Publication Number"]]

concat_published(row, earliest_pub_map) ==
    LET existing == row["INPADOC Family Members"]
        earliest_pub == IF row["Application Number"] \in DOMAIN earliest_pub_map
                        THEN earliest_pub_map[row["Application Number"]]
                        ELSE None
    IN  IF ~Truthy(earliest_pub) THEN existing
        ELSE LET parts == IF Truthy(existing) THEN split(existing.s, Pipe) ELSE <<>>
                 existing_set == {parts[i] : i \in 1 .. Len(parts)}
             IN  StrVal(join(sorted(existing_set \cup {earliest_pub.s}), <<Pipe>>))

process_info_sheet(meta, family, nullAsText) ==
    LET df_seed == SeedRows(meta)
        merged == merge_left(BaseInfo(df_seed, nullAsText), family)
        earliest_pub_map == EarliestPubMap(family)
    IN  [df_info |->
            [i \in 1 .. Len(merged) |->
                [merged[i] EXCEPT !["INPADOC Family Members"] =
                                      concat_published(merged[i], earliest_pub_map)]],
         seed_count |-> Len(df_seed)]

-----------------------------------------------------------------------------
(* Inputs of process_details_sheet                                         *)

MaxRows == 2

Layouts ==
    { <<"Publication Number", "Title", "Independent Claims">>,
      <<"Independent Claims", "Publication Number">> }

CellPool ==
    { None, IntVal(0), IntVal(7),
      StrVal(<<32, 40, 67, 97, 110, 99, 101, 108, 101, 100, 41, 32, 124, 32, 99,
               108, 97, 105, 109, 32, 49>>),                \* " (Canceled) | claim 1"
      StrVal(<<233, 32, 111, 107, 124, 99, 111, 109, 112, 233, 117, 116, 101,
               114>>),                                      \* "<e9> ok|comp<e9>uter"
      StrVal(<<111, 107, 124, 124, 100, 101, 108, 101, 116, 101, 32, 99, 108, 97,
               117, 115, 101>>),                            \* "ok||delete clause"
      StrVal(<<32, 124, 32>>),                                      \* " | "
      StrVal(<<40, 99, 97, 110, 99, 101, 108, 101, 100, 41, 124, 97, 32, 112, 97,
               114, 97, 103, 114, 97, 112, 104, 124, 97, 110, 32, 97, 114, 116,
               105, 99, 108, 101>>) }          \* "(canceled)|a paragraph|an article"

KeyPool == { StrVal(<<75, 49>>), StrVal(<<75, 50>>) }               \* "K1", "K2"

ColumnPool(name) ==
    CASE name = ClaimColumn -> CellPool
      [] name = "Publication Number" -> KeyPool
      [] OTHER -> { StrVal(<<84>>) }                                \* "T"

\* the rows a sheet with this header row can hold
RECURSIVE RowPool(_)
RowPool(hdr) ==
    IF hdr = <<>> THEN { <<>> }
    ELSE { <<v>> \o r : v \in ColumnPool(Head(hdr)), r \in RowPool(Tail(hdr)) }

-----------------------------------------------------------------------------
(* Values of the variables a specification does not use                    *)

ClassifyIdle == claim = <<>> /\ result = [text |-> <<>>, comments |-> <<>>]
DetailsIdle ==
    /\ headers = <<>>
    /\ in_rows = <<>>
    /\ updated_rows = <<>>
    /\ rejected_rows = <<>>
    /\ cleaned_log = <<>>
    /\ rerun_rejected = <<>>
InfoIdle ==
    /\ df_meta = <<>>
    /\ df_family_published = <<>>
    /\ null_as_text = FALSE
    /\ df_info = <<>>
    /\ seed_count = 0
UiIdle ==
    /\ details_file = None
    /\ metadata_file = None
    /\ shown = [status |-> "none", message |-> "", downloads |-> {}]

-----------------------------------------------------------------------------
(* Specification of clean_claim_text                                       *)

ClassifyInit ==
    /\ claim \in ClaimPool
    /\ result = [text |-> <<>>, comments |-> <<>>]
    /\ pc = "call"
    /\ DetailsIdle /\ InfoIdle /\ UiIdle

Classify ==
    /\ pc = "call"
    /\ result' = clean_claim_text(claim)
    /\ pc' = "returned"
    /\ UNCHANGED <<claim, detailsVars, infoVars, uiVars>>

ClassifyNext == Classify

SpecClassify == ClassifyInit /\ [][ClassifyNext]_vars

-----------------------------------------------------------------------------
(* Specification of process_details_sheet                                  *)

DetailsInit ==
    /\ headers \in Layouts
    /\ in_rows = <<>>
    /\ updated_rows = <<headers>>
    /\ rejected_rows = <<RejectedHeader>>
    /\ cleaned_log = <<>>
    /\ rerun_rejected = <<>>
    /\ pc = "rows"
    /\ ClassifyIdle /\ InfoIdle /\ UiIdle

\* one iteration of the loop over the data rows
ReadRow ==
    /\ pc = "rows"
    /\ Len(in_rows) < MaxRows
    /\ \E row \in RowPool(headers) :
          LET r == ProcessRow(row, Index(headers, ClaimColumn))
          IN  /\ in_rows' = Append(in_rows, row)
              /\ updated_rows' = Append(updated_rows, r.row_list)
              /\ rejected_rows' = rejected_rows \o r.rejected
              /\ cleaned_log' = Append(cleaned_log, r.cleaned_claims)
    /\ UNCHANGED <<headers, rerun_rejected, pc, classifyVars, infoVars, uiVars>>

\* the rows are exhausted: the two sheets are written and returned
Save ==
    /\ pc = "rows"
    /\ pc' = "saved"
    /\ UNCHANGED <<detailsVars, classifyVars, infoVars, uiVars>>

\* process_details_sheet on the "Updated Details" sheet of the run
Rerun ==
    /\ pc = "saved"
    /\ rerun_rejected' = process_details_sheet(updated_rows).rejected_rows
    /\ pc' = "rerun"
    /\ UNCHANGED <<headers, in_rows, updated_rows, rejected_rows, cleaned_log,
                   classifyVars, infoVars, uiVars>>

DetailsNext == ReadRow \/ Save \/ Rerun

SpecDetails == DetailsInit /\ [][DetailsNext]_vars

-----------------------------------------------------------------------------
(* The "Process Files" handler                                             *)

Columns(sheet) == {Head(sheet)[i] : i \in 1 .. Len(Head(sheet))}

\* pd.read_excel: the data rows of a sheet, addressed by column name
read_excel(sheet) ==
    [i \in 1 .. (Len(sheet) - 1) |->
        [c \in Columns(sheet) |-> sheet[i + 1][Index(Head(sheet), c)]]]

\* the column look-ups of process_info_sheet, in the order the code makes them
InfoLookups ==
    << <<"metadata", "Seed?">>,
       <<"cleaned", "Publication Number">>,
       <<"cleaned", "Independent Claims">>,
       <<"metadata", "Seed patent">>,
       <<"metadata", "Formatted Application Number">>,
       <<"metadata", "extended family members">>,
       <<"metadata", "Claim number">>,
       <<"family", "Publication Number">>,
       <<"family", "Simple Family Id">>,
       <<"family", "Publication Date">>,
       <<"family", "Application Number">> >>

\* the look-ups that raise KeyError on these three sheets
InfoKeyErrors(metadata, family, cleaned) ==
    LET cols(which) == CASE which = "metadata" -> Columns(metadata)
                         [] which = "family" -> Columns(family)
                         [] which = "cleaned" -> Columns(cleaned)
    IN  SelectSeq(InfoLookups, LAMBDA l : l[2] \notin cols(l[1]))

Download(file_name, data) == [file_name |-> file_name, data |-> data]

DetailsFileName ==                                          \* "Details_sheet_CC.xlsx"
    <<68, 101, 116, 97, 105, 108, 115, 95, 115, 104, 101, 101, 116, 95, 67, 67, 46,
      120, 108, 115, 120>>
\* f"Info_Sheet_CC_{seed_count}.xlsx"
InfoFileName(count) ==
    <<73, 110, 102, 111, 95, 83, 104, 101, 101, 116, 95, 67, 67, 95>>
    \o Digits(count) \o <<46, 120, 108, 115, 120>>

\* the handler with the first download button rendered before process_info_sheet
ProcessFilesHandler_EarlyDownload(details, metadata, nullAsText) ==
    IF details = None \/ metadata = None
    THEN [status |-> "error", message |-> "Please upload both required files!",
          downloads |-> {}]
    ELSE IF ClaimColumn \notin Columns(details.sheet)
    THEN [status |-> "error", message |-> "ValueError", downloads |-> {}]
    ELSE LET cleaned_details_output == process_details_sheet(details.sheet)
             errors == InfoKeyErrors(metadata.sheet, details.sheet,
                                     cleaned_details_output.updated_rows)
         IN  IF errors # <<>>
             THEN [status |-> "error", message |-> Head(errors)[2],
                   downloads |-> { Download(DetailsFileName, cleaned_details_output) }]
             ELSE LET info == process_info_sheet(read_excel(metadata.sheet),
                                                 read_excel(details.sheet), nullAsText)
                  IN  [status |-> "success",
                       message |-> "Processing completed successfully!",
                       downloads |->
                           { Download(DetailsFileName, cleaned_details_output),
                             Download(InfoFileName(info.seed_count), info.df_info) }]

\* the body of  if st.button("Process Files")
ProcessFilesHandler(details, metadata, nullAsText) ==
    IF details = None \/ metadata = None
    THEN [status |-> "error", message |-> "Please upload both required files!",
          downloads |-> {}]
    ELSE IF ClaimColumn \notin Columns(details.sheet)
    THEN [status |-> "error", message |-> "ValueError", downloads |-> {}]
    ELSE LET cleaned_details_output == process_details_sheet(details.sheet)
             errors == InfoKeyErrors(metadata.sheet, details.sheet,
                                     cleaned_details_output.updated_rows)
         IN  IF errors # <<>>
             THEN [status |-> "error", message |-> Head(errors)[2], downloads |-> {}]
             ELSE LET info == process_info_sheet(read_excel(metadata.sheet),
                                                 read_excel(details.sheet), nullAsText)
                  IN  [status |-> "success",
                       message |-> "Processing completed successfully!",
                       downloads |->
                           { Download(DetailsFileName, cleaned_details_output),
                             Download(InfoFileName(info.seed_count), info.df_info) }]

-----------------------------------------------------------------------------
(* Vocabulary of the properties                                            *)

RECURSIVE SumSeq(_)
SumSeq(q) == IF q = <<>> THEN 0 ELSE Head(q) + SumSeq(Tail(q))

Count(q, x) == Cardinality({i \in 1 .. Len(q) : q[i] = x})

ClaimIdx == Index(headers, ClaimColumn)

\* the fragments of a claim cell: none for an empty (falsy) cell
Fragments(cell) == IF Truthy(cell) THEN split(PyStr(cell), Pipe) ELSE <<>>

RowFragments(i) == Fragments(in_rows[i][ClaimIdx])

TagSet(f) == LET c == clean_claim_text(f).comments IN {c[j] : j \in 1 .. Len(c)}

HasRejectTag(f) == TagSet(f) \cap RejectTags # {}

\* the "Commented Claims" record of fragment f of a row with this key
RecordOf(key, f) ==
    LET r == clean_claim_text(f)
    IN  <<key, StrVal(r.text), StrVal(join(r.comments, CommentSep))>>

\* the records of the rejected fragments of row i, in fragment order
RowRecords(i) ==
    LET fr == RowFragments(i)
        hit == SelectSeq([j \in 1 .. Len(fr) |-> j], LAMBDA j : HasRejectTag(fr[j]))
    IN  [n \in 1 .. Len(hit) |-> RecordOf(in_rows[i][1], fr[hit[n]])]

\* the normalized texts of the kept fragments of row i, in fragment order
RowKept(i) ==
    LET fr == RowFragments(i)
        ok == SelectSeq([j \in 1 .. Len(fr) |-> j], LAMBDA j : ~HasRejectTag(fr[j]))
    IN  [n \in 1 .. Len(ok) |-> clean_claim_text(fr[ok[n]]).text]

\* "(canceled)" occurs in f, in any letter case
HasCanceled(f) ==
    \E i \in 1 .. (Len(f) - Len(KwCanceled) + 1) :
        \A k \in 1 .. Len(KwCanceled) : lowerChar(f[i + k - 1]) = KwCanceled[k]

-----------------------------------------------------------------------------
(* C1: every fragment of a row's claim cell is either kept (an element of  *)
(* the row's rebuilt cell) or rejected (a "Commented Claims" row), never   *)
(* both and never neither: per Key, kept fragments plus rejected records   *)
(* equal the fragments of the split, empty and blank fragments included.   *)
C1_Partition ==
    \A i \in 1 .. Len(in_rows) :
        LET key == in_rows[i][1]
            n == Len(in_rows)
            mine(j) == in_rows[j][1] = key
        IN  /\ updated_rows[i + 1][ClaimIdx] = StrVal(join(cleaned_log[i], Sep))
            /\ SumSeq([j \in 1 .. n |-> IF mine(j) THEN Len(RowFragments(j)) ELSE 0])
                 = SumSeq([j \in 1 .. n |-> IF mine(j) THEN Len(cleaned_log[j]) ELSE 0])
                   + Cardinality({r \in 2 .. Len(rejected_rows) :
                                     rejected_rows[r][1] = key})

C1_Witness ==
    /\ pc = "saved"
    /\ \E i \in 1 .. Len(in_rows) :
          /\ Len(RowFragments(i)) = 3
          /\ Count(RowFragments(i), <<>>) = 1
          /\ Len(cleaned_log[i]) = 2
          /\ \E r \in 2 .. Len(rejected_rows) : rejected_rows[r][1] = in_rows[i][1]

C3_Idempotent == pc = "rerun" => rerun_rejected = <<RejectedHeader>>

C3_Witness ==
    /\ pc = "rerun"
    /\ Len(rejected_rows) > 1
    /\ \E i \in 1 .. Len(in_rows) :
          /\ in_rows[i][ClaimIdx].t = "str"
          /\ \E k \in 1 .. Len(in_rows[i][ClaimIdx].s) : in_rows[i][ClaimIdx].s[k] >= 128
          /\ \E k \in 1 .. Len(cleaned_log[i]) :
                cleaned_log[i][k] # <<>> /\ cleaned_log[i][k][1] \in WhiteSpace

(* C4: "Commented Claims" is the header Key, Claim, Comments followed by   *)
(* one row per rejected fragment in encounter order (row order, then       *)
(* fragment order), each row being the source row's first-column value,    *)
(* the normalized text and the tags joined with ", ".                      *)
C4_CommentedClaims ==
    rejected_rows =
        <<RejectedHeader>> \o Flatten([i \in 1 .. Len(in_rows) |-> RowRecords(i)])

C4_Witness ==
    /\ pc = "saved"
    /\ Len(in_rows) = 2
    /\ in_rows[1][1] # in_rows[2][1]
    /\ Len(RowRecords(1)) >= 2
    /\ Len(RowRecords(2)) >= 1
    /\ \E n \in 1 .. Len(RowFragments(2)) :
          Cardinality(TagSet(RowFragments(2)[n]) \cap RejectTags) = 2

(* C5: "Updated Details" is the input header row followed by one row per   *)
(* input data row in input order; every column but "Independent Claims"    *)
(* keeps its value and position, and the claim cell is the normalized      *)
(* texts of the kept fragments joined with " | " (the empty string when    *)
(* there is none).                                                         *)
C5_UpdatedDetails ==
    /\ Len(updated_rows) = Len(in_rows) + 1
    /\ updated_rows[1] = headers
    /\ \A i \in 1 .. Len(in_rows) :
          /\ Len(updated_rows[i + 1]) = Len(in_rows[i])
          /\ \A c \in 1 .. Len(in_rows[i]) :
                updated_rows[i + 1][c] =
                    IF c = ClaimIdx THEN StrVal(join(RowKept(i), Sep)) ELSE in_rows[i][c]
          /\ (~Truthy(in_rows[i][ClaimIdx]) \/ RowKept(i) = <<>>)
                => updated_rows[i + 1][ClaimIdx] = StrVal(<<>>)

C5_Witness ==
    /\ pc = "saved"
    /\ Len(in_rows) = 2
    /\ in_rows[1][ClaimIdx] = None
    /\ Len(RowKept(2)) = 2 /\ Len(RowRecords(2)) = 1
    /\ updated_rows[2] # in_rows[1]

\* the word claim or claims, then whitespace, then a digit
WordClaimThenNumber(s) ==
    \E i \in 1 .. Len(s) :
        /\ i = 1 \/ ~IsWordChar(s[i - 1])
        /\ i + 4 <= Len(s)
        /\ \A k \in 1 .. 5 : lowerChar(s[i + k - 1]) = ReClaim[k]
        /\ \E e \in {i + 5, i + 6} :
              /\ e = i + 6 => (i + 5 <= Len(s) /\ lowerChar(s[i + 5]) = 115)
              /\ \E d \in (e + 1) .. Len(s) :
                    /\ \A k \in e .. (d - 1) : s[k] \in WhiteSpace
                    /\ IsDigit(s[d])

(* C9: clean_claim_text tags a non-empty fragment "probable dependent",    *)
(* once, iff the normalized text holds the word claim or claims followed   *)
(* by whitespace and a digit, or is shorter than 200 characters.           *)
C9_ProbableDependent ==
    (pc = "returned" /\ claim # <<>>) =>
        /\ Count(result.comments, TagProbableDependent) <= 1
        /\ InComments(result.comments, TagProbableDependent)
             <=> (WordClaimThenNumber(result.text) \/ Len(result.text) < LenLimit)

C9_Witness ==
    /\ pc = "returned"
    /\ Len(result.text) >= LenLimit
    /\ InComments(result.comments, TagProbableDependent)

-----------------------------------------------------------------------------
(* Inputs of process_info_sheet                                            *)

MaxMeta == 1
MaxFamily == 2

US1 == StrVal(<<85, 83, 49>>)                                       \* "US1"
US5 == StrVal(<<85, 83, 53>>)                                       \* "US5"
A1 == StrVal(<<65, 49>>)                                            \* "A1"
A2 == StrVal(<<65, 50>>)                                            \* "A2"

MetaRowPool ==
    { ("Seed?" :> seed)
      @@ ("Seed patent" :> pa[1])
      @@ ("Formatted Application Number" :> pa[2])
      @@ ("extended family members" :> ext)
      @@ ("Claim number" :> StrVal(<<67, 108, 97, 105, 109, 32, 51>>))  \* "Claim 3"
      : seed \in BOOLEAN,
        pa \in { <<US1, A1>>, <<US5, A2>> },
        ext \in { None,
                  StrVal(<<85, 83, 57, 124, 85, 83, 53, 124, 85, 83, 57>>) } }
                                                                    \* "US9|US5|US9"

FamilyRowPool ==
    { ("Publication Number" :> pub)
      @@ ("Simple Family Id" :> StrVal(<<70, 49>>))                 \* "F1"
      @@ ("Application Number" :> app)
      @@ ("Publication Date" :> date)
      : pub \in {US1, US5}, app \in {A1, A2}, date \in {None, DateVal(1), DateVal(2)} }

\* the tables of at most n rows drawn from a pool
RECURSIVE Tables(_, _)
Tables(pool, n) ==
    IF n = 0 THEN { <<>> }
    ELSE Tables(pool, n - 1)
         \cup { Append(t, r) : t \in { u \in Tables(pool, n - 1) : Len(u) = n - 1 },
                               r \in pool }

-----------------------------------------------------------------------------
(* Specification of process_info_sheet                                     *)

InfoInit ==
    /\ df_meta \in Tables(MetaRowPool, MaxMeta)
    /\ df_family_published \in Tables(FamilyRowPool, MaxFamily)
    /\ null_as_text \in BOOLEAN
    /\ df_info = <<>>
    /\ seed_count = 0
    /\ pc = "call"
    /\ ClassifyIdle /\ DetailsIdle /\ UiIdle

ProcessInfo ==
    /\ pc = "call"
    /\ LET out == process_info_sheet(df_meta, df_family_published, null_as_text)
       IN  df_info' = out.df_info /\ seed_count' = out.seed_count
    /\ pc' = "returned"
    /\ UNCHANGED <<df_meta, df_family_published, null_as_text, classifyVars,
                   detailsVars, uiVars>>

InfoNext == ProcessInfo

SpecInfo == InfoInit /\ [][InfoNext]_vars

-----------------------------------------------------------------------------
(* Properties of process_info_sheet                                        *)

Members(r) == split(df_info[r]["INPADOC Family Members"].s, Pipe)

FamilyRowsOf(app) ==
    {i \in 1 .. Len(df_family_published) :
        df_family_published[i]["Application Number"] = app}

(* C6: in every info row whose Application Number occurs in the            *)
(* family-published table, INPADOC Family Members holds the Publication    *)
(* Number of the row with the earliest non-null Publication Date of that   *)
(* Application Number (the first such row in table order), and the members *)
(* are in ascending lexicographic order without duplicates.                *)
C6_EarliestMember ==
    pc = "returned" =>
        \A r \in 1 .. Len(df_info) :
            LET rowsA == FamilyRowsOf(df_info[r]["Application Number"])
                date(i) == df_family_published[i]["Publication Date"]
                dated == {i \in rowsA : date(i) # None}
            IN  rowsA # {} =>
                  /\ \A i \in dated :
                        (\A j \in dated : date(i).d < date(j).d
                                          \/ (date(i).d = date(j).d /\ i <= j))
                        => \E m \in 1 .. Len(Members(r)) :
                              Members(r)[m] = df_family_published[i]["Publication Number"].s
                  /\ \A k \in 1 .. (Len(Members(r)) - 1) :
                        StrLess(Members(r)[k], Members(r)[k + 1])

C6_Witness ==
    /\ pc = "returned"
    /\ \E r \in 1 .. Len(df_info) :
          /\ df_info[r]["INPADOC Family Members"] =
                StrVal(<<85, 83, 49, 124, 85, 83, 53, 124, 85, 83, 57>>)  \* "US1|US5|US9"
          /\ \E i, j \in FamilyRowsOf(df_info[r]["Application Number"]) :
                /\ i < j
                /\ df_family_published[i]["Publication Date"] = None
                /\ df_family_published[j]["Publication Number"] = US1
                /\ df_family_published[i]["Publication Number"] = US5

(* C7: the info table has exactly one data row per seed record: its number *)
(* of rows equals seed_count, whatever the family-published table holds.   *)
C7_OneRowPerSeed == pc = "returned" => Len(df_info) = seed_count

(* C10: a seed whose extended family members are null has the empty string *)
(* as existing members: the output is "" without an earliest publication   *)
(* for its Application Number and exactly that Publication Number with     *)
(* one; a non-null value without an earliest publication is unchanged.     *)
C10_NullMembers ==
    pc = "returned" =>
        \A r \in 1 .. Len(df_info) :
            \E i \in 1 .. Len(df_meta) :
                LET s == df_meta[i]
                    ext == s["extended family members"]
                    app == s["Formatted Application Number"]
                    mapped == FamilyRowsOf(app) # {}
                    out == df_info[r]["INPADOC Family Members"]
                IN  /\ s["Seed?"] = TRUE
                    /\ s["Seed patent"] = df_info[r]["Publication Number"]
                    /\ app = df_info[r]["Application Number"]
                    /\ (ext = None /\ ~mapped) => out = StrVal(<<>>)
                    /\ (ext = None /\ mapped)
                          => out = EarliestPubMap(df_family_published)[app]
                    /\ (ext # None /\ ~mapped) => out = ext

-----------------------------------------------------------------------------
(* Inputs of the handler                                                   *)

File(sheet) == [t |-> "file", sheet |-> sheet]

\* hdr without the column at position k (k = 0: nothing dropped)
Without(hdr, k) == SelectSeq(hdr, LAMBDA c : k = 0 \/ c # hdr[k])

\* the sheet with header hdr holding these records
Sheet(hdr, records) ==
    <<hdr>> \o [i \in 1 .. Len(records) |-> [c \in 1 .. Len(hdr) |-> records[i][hdr[c]]]]

DetailsColumns ==
    <<"Publication Number", "Independent Claims", "Simple Family Id",
      "Application Number", "Publication Date">>

DetailsRecords ==
    << ("Publication Number" :> US1)
       @@ ("Independent Claims" :>
              StrVal(<<32, 40, 67, 97, 110, 99, 101, 108, 101, 100, 41, 32, 124, 32,
                       99, 108, 97, 105, 109, 32, 49>>))    \* " (Canceled) | claim 1"
       @@ ("Simple Family Id" :> StrVal(<<70, 49>>))                \* "F1"
       @@ ("Application Number" :> A1)
       @@ ("Publication Date" :> DateVal(2)),
       ("Publication Number" :> US5)
       @@ ("Independent Claims" :> None)
       @@ ("Simple Family Id" :> StrVal(<<70, 49>>))                \* "F1"
       @@ ("Application Number" :> A1)
       @@ ("Publication Date" :> DateVal(1)) >>

MetadataColumns ==
    <<"Seed?", "Seed patent", "Formatted Application Number",
      "extended family members", "Claim number">>

MetadataRecords ==
    << ("Seed?" :> TRUE)
       @@ ("Seed patent" :> US1)
       @@ ("Formatted Application Number" :> A1)
       @@ ("extended family members" :> StrVal(<<85, 83, 57>>))     \* "US9"
       @@ ("Claim number" :> StrVal(<<67, 108, 97, 105, 109, 32, 51>>)),  \* "Claim 3"
       ("Seed?" :> FALSE)
       @@ ("Seed patent" :> US5)
       @@ ("Formatted Application Number" :> A2)
       @@ ("extended family members" :> None)
       @@ ("Claim number" :> None) >>

DetailsFiles ==
    { File(Sheet(Without(DetailsColumns, k), DetailsRecords)) : k \in 0 .. Len(DetailsColumns) }

MetadataFiles ==
    { File(Sheet(Without(MetadataColumns, k), MetadataRecords)) :
        k \in 0 .. Len(MetadataColumns) }

-----------------------------------------------------------------------------
(* Specification of the page: every interaction runs the script again      *)

NothingShown == [status |-> "none", message |-> "", downloads |-> {}]

RunInit ==
    /\ details_file = None
    /\ metadata_file = None
    /\ shown = NothingShown
    /\ null_as_text \in BOOLEAN
    /\ df_meta = <<>> /\ df_family_published = <<>> /\ df_info = <<>> /\ seed_count = 0
    /\ pc = "page"
    /\ ClassifyIdle /\ DetailsIdle

UploadDetails ==
    /\ \E f \in DetailsFiles \cup {None} : details_file' = f
    /\ shown' = NothingShown
    /\ UNCHANGED <<metadata_file, pc, classifyVars, detailsVars, infoVars>>

UploadMetadata ==
    /\ \E f \in MetadataFiles \cup {None} : metadata_file' = f
    /\ shown' = NothingShown
    /\ UNCHANGED <<details_file, pc, classifyVars, detailsVars, infoVars>>

ProcessFiles ==
    /\ shown' = ProcessFilesHandler(details_file, metadata_file, null_as_text)
    /\ UNCHANGED <<details_file, metadata_file, pc, classifyVars, detailsVars, infoVars>>

\* a download button is pressed: the script runs again without the handler
ClickDownload ==
    /\ shown.downloads # {}
    /\ shown' = NothingShown
    /\ UNCHANGED <<details_file, metadata_file, pc, classifyVars, detailsVars, infoVars>>

RunNext == UploadDetails \/ UploadMetadata \/ ProcessFiles \/ ClickDownload

SpecRun == RunInit /\ [][RunNext]_vars

-----------------------------------------------------------------------------
(* Properties of the handler                                               *)

\* the uploads with which each stage returns
DetailsStageCompletes ==
    /\ details_file # None /\ metadata_file # None
    /\ ClaimColumn \in Columns(details_file.sheet)

InfoStageCompletes ==
    /\ DetailsStageCompletes
    /\ {MetadataColumns[i] : i \in 1 .. Len(MetadataColumns)}
          \subseteq Columns(metadata_file.sheet)
    /\ {DetailsColumns[i] : i \in 1 .. Len(DetailsColumns)}
          \subseteq Columns(details_file.sheet)

(* C8: a run of "Process Files" is all-or-nothing: both stages complete    *)
(* and both artifacts are offered, or a stage fails, an error is reported  *)
(* and no artifact is offered, also when process_details_sheet succeeded   *)
(* and process_info_sheet failed on a missing column.                      *)
C8_AllOrNothing ==
    shown.status # "none" =>
        IF InfoStageCompletes
        THEN /\ shown.status = "success"
             /\ {d.file_name : d \in shown.downloads}
                   = {DetailsFileName, InfoFileName(1)}
        ELSE shown.status = "error" /\ shown.downloads = {}

C8_Witness ==
    /\ shown.status = "error"
    /\ DetailsStageCompletes
    /\ ~InfoStageCompletes
    /\ "Seed?" \in Columns(metadata_file.sheet)

====
